---- MODULE Spec2Model ----
(***************************************************************************)
(* The ESP-NOW bridge light example of esp-matter                          *)
(* (examples/esp-now_bridge_light/main/app_main.cpp): the startup sequence *)
(* of app_main, the attribute-update callback and the lifecycle-event      *)
(* callback the Matter stack invokes once it has been started.             *)
(***************************************************************************)
EXTENDS Integers, Sequences, FiniteSets, TLC

VARIABLES
    pc,                     \* index into app_main_steps of the next statement
    aborted,                \* abort() was called by ESP_ERROR_CHECK
    light_handle,           \* app_main local
    node,                   \* app_main local: node_t *
    endpoint,               \* app_main local: endpoint_t * of the light
    aggregator,             \* app_main local: endpoint_t * of the aggregator
    cluster,                \* app_main local: cluster_t * of ColorControl
    light_endpoint_id,      \* global
    aggregator_endpoint_id, \* global
    err,                    \* app_main local
    provisioned,            \* app_main local
    calls,                  \* the calls app_main has made, in order
    reports,                \* what app_main has logged with ESP_LOGE
    ps,                     \* Wi-Fi power-save mode
    wifi_cfg,               \* what esp_wifi_get_config answered
    tree,                   \* endpoint ids owned by the node
    features,               \* features added to the light's ColorControl cluster
    bridged,                \* endpoint ids restored under the aggregator
    started,                \* the stack runs and dispatches callbacks
    attr_val,               \* stored attribute values of the light endpoint
    write_path,             \* attribute addressed by the last attribute operation
    write_before,           \* its stored value before that operation
    cb_trace,               \* app_attribute_update_cb invocations of that operation
    last_event              \* the last app_event_cb invocation

vars == <<pc, aborted, light_handle, node, endpoint, aggregator, cluster,
          light_endpoint_id, aggregator_endpoint_id, err, provisioned, calls,
          reports, ps, wifi_cfg, tree, features, bridged, started, attr_val, write_path,
          write_before, cb_trace, last_event>>

main_vars == <<pc, aborted, light_handle, node, endpoint, aggregator, cluster,
               light_endpoint_id, aggregator_endpoint_id, err, provisioned,
               calls, reports, ps, wifi_cfg, tree, features, bridged, started>>
attr_vars == <<write_path, write_before, cb_trace>>
event_vars == <<last_event>>

----------------------------------------------------------------------------
\* Bounds of the model.
MaxBridged == 1
MaxSsidLen == 1

----------------------------------------------------------------------------
\* Values.
NULL == {}
ESP_OK == "ESP_OK"
ESP_FAIL == "ESP_FAIL"
ESP_ERR_INVALID_ARG == "ESP_ERR_INVALID_ARG"
StackErrors == {ESP_OK, ESP_FAIL}

\* What a lookup of the id of a null endpoint handle can yield.
NullEndpointIds == {0, 65535}

Max(S) == CHOOSE x \in S : \A y \in S : y <= x
NextEndpointId(t) == IF t = {} THEN 0 ELSE Max(t) + 1

\* Faulty variant: the stack is started before the feature is added.
app_main_steps_start_early ==
    << "driver_init", "node_create", "light_create", "aggregator_create",
       "get_light_id", "get_aggregator_id", "cluster_get", "start",
       "feature_add", "bridge_init", "wifi_is_provisioned", "set_ps",
       "espnow_init", "set_defaults" >>

\* The statements of app_main, in program order.
app_main_steps ==
    << "driver_init", "node_create", "light_create", "aggregator_create",
       "get_light_id", "get_aggregator_id", "cluster_get", "feature_add",
       "start", "bridge_init", "wifi_is_provisioned", "set_ps",
       "espnow_init", "set_defaults" >>

At(s) == /\ ~aborted
         /\ pc <= Len(app_main_steps)
         /\ app_main_steps[pc] = s
Returned == ~aborted /\ pc = Len(app_main_steps) + 1
Terminated == aborted \/ Returned

Call(fn, null_arg, ok) == [fn |-> fn, null_arg |-> null_arg, ok |-> ok]
Called(fn) == \E i \in 1..Len(calls) : calls[i].fn = fn
CallCount(fn) == Cardinality({i \in 1..Len(calls) : calls[i].fn = fn})
Failed(fn) == \E i \in 1..Len(calls) : calls[i].fn = fn /\ ~calls[i].ok
Pos(fn) == IF Called(fn)
           THEN CHOOSE i \in 1..Len(calls) :
                    /\ calls[i].fn = fn
                    /\ \A j \in 1..(i - 1) : calls[j].fn # fn
           ELSE 0

----------------------------------------------------------------------------
\* wifi_is_provisioned: cfg_err is what esp_wifi_get_config returns and
\* ssid_len the length of the station SSID it stores.
wifi_is_provisioned(provisioned_ptr, cfg_err, ssid_len) ==
    IF provisioned_ptr = NULL
    THEN [err |-> ESP_ERR_INVALID_ARG, provisioned |-> FALSE]
    ELSE IF cfg_err # ESP_OK
         THEN [err |-> ESP_FAIL, provisioned |-> FALSE]
         ELSE [err |-> ESP_OK, provisioned |-> (ssid_len > 0)]

----------------------------------------------------------------------------
\* The composition interface of the esp_matter component.

\* node::create: the node owns the root endpoint 0 when it succeeds.
node_create(ok) ==
    IF ok THEN [handle |-> {"node"}, tree |-> {0}]
          ELSE [handle |-> NULL, tree |-> {}]

\* color_temperature_light::create and aggregator::create: a null node makes
\* the creation fail and leaves the tree as it is.
endpoint_create(n, t, ok) ==
    IF n = NULL \/ ~ok
    THEN [handle |-> NULL, tree |-> t]
    ELSE [handle |-> {NextEndpointId(t)}, tree |-> t \cup {NextEndpointId(t)}]

\* endpoint::get_id
get_id(h, null_id) == IF h = NULL THEN null_id ELSE CHOOSE x \in h : TRUE

\* cluster::get(endpoint, ColorControl::Id)
cluster_get(ep) == IF ep = NULL THEN NULL ELSE {"ColorControl"}

\* cluster::color_control::feature::hue_saturation::add
feature_add(c, f) == IF c = NULL THEN f ELSE f \cup {"hue_saturation"}

\* app_bridge_initialize: restores k bridged endpoints under the aggregator;
\* nothing is restored into a null node or when the restore fails.
bridge_initialize(n, t, res, k) ==
    IF n = NULL \/ res # ESP_OK
    THEN [err |-> res, tree |-> t, bridged |-> {}]
    ELSE [err |-> ESP_OK,
          tree |-> t \cup {NextEndpointId(t) + i : i \in 0..(k - 1)},
          bridged |-> {NextEndpointId(t) + i : i \in 0..(k - 1)}]

\* The default attribute values of light_config.
light_config == [p \in {"OnOff", "CurrentLevel"} |->
                    IF p = "OnOff" THEN 1 ELSE 128]

----------------------------------------------------------------------------
\* app_attribute_update_cb: drv is what app_driver_attribute_update returns
\* when it is called.  The result holds the value returned and the calls made
\* to the driver.
PRE_UPDATE == "PRE_UPDATE"
POST_UPDATE == "POST_UPDATE"
callback_type_t == {PRE_UPDATE, POST_UPDATE, "READ", "WRITE"}

DriverCall(h, ep, cl, at, val) ==
    [handle |-> h, endpoint_id |-> ep, cluster_id |-> cl,
     attribute_id |-> at, val |-> val]

\* Faulty variant: the result of the driver is dropped.
app_attribute_update_cb_swallow(type, ep, cl, at, val, priv_data, drv) ==
    IF type = PRE_UPDATE
    THEN [err |-> ESP_OK,
          driver_calls |-> <<DriverCall(priv_data, ep, cl, at, val)>>]
    ELSE [err |-> ESP_OK, driver_calls |-> <<>>]

\* Faulty variant: err is initialised to ESP_FAIL.
app_attribute_update_cb_err_fail(type, ep, cl, at, val, priv_data, drv) ==
    IF type = PRE_UPDATE
    THEN [err |-> drv,
          driver_calls |-> <<DriverCall(priv_data, ep, cl, at, val)>>]
    ELSE [err |-> ESP_FAIL, driver_calls |-> <<>>]

\* Faulty variant: the driver is called whatever the phase.
app_attribute_update_cb_any_phase(type, ep, cl, at, val, priv_data, drv) ==
    [err |-> drv, driver_calls |-> <<DriverCall(priv_data, ep, cl, at, val)>>]

app_attribute_update_cb(type, ep, cl, at, val, priv_data, drv) ==
    IF type = PRE_UPDATE
    THEN [err |-> drv,
          driver_calls |-> <<DriverCall(priv_data, ep, cl, at, val)>>]
    ELSE [err |-> ESP_OK, driver_calls |-> <<>>]

\* The attributes of the light endpoint the stack writes, and the values a
\* write can carry.
AttrPaths == {"OnOff", "CurrentLevel"}
ClusterOf(p) == IF p = "OnOff" THEN "OnOff" ELSE "LevelControl"
AttrValues(p) == IF p = "OnOff" THEN {0, 1} ELSE {64, 128}

----------------------------------------------------------------------------
\* app_event_cb: the lines it logs, the events it posts and whether it fails.
RecognisedEvents ==
    {"kInterfaceIpAddressChanged", "kCommissioningComplete",
     "kFailSafeTimerExpired", "kCommissioningSessionStarted",
     "kCommissioningSessionStopped", "kCommissioningWindowOpened",
     "kCommissioningWindowClosed"}
OtherEvents == {"kWiFiConnectivityChange", "kFutureEvent"}
DeviceEventType == RecognisedEvents \cup OtherEvents

EventResult(logs) == [logs |-> logs, posted |-> <<>>, error |-> FALSE]

\* Faulty variant: the kCommissioningComplete case lacks its break.
app_event_cb_fallthrough(type) ==
    CASE type = "kInterfaceIpAddressChanged" ->
             EventResult(<<"Interface IP Address changed">>)
      [] type = "kCommissioningComplete" ->
             EventResult(<<"Commissioning complete",
                           "Commissioning failed, fail safe timer expired">>)
      [] type = "kFailSafeTimerExpired" ->
             EventResult(<<"Commissioning failed, fail safe timer expired">>)
      [] type = "kCommissioningSessionStarted" ->
             EventResult(<<"Commissioning session started">>)
      [] type = "kCommissioningSessionStopped" ->
             EventResult(<<"Commissioning session stopped">>)
      [] type = "kCommissioningWindowOpened" ->
             EventResult(<<"Commissioning window opened">>)
      [] type = "kCommissioningWindowClosed" ->
             EventResult(<<"Commissioning window closed">>)
      [] OTHER -> EventResult(<<>>)

app_event_cb(type) ==
    CASE type = "kInterfaceIpAddressChanged" ->
             EventResult(<<"Interface IP Address changed">>)
      [] type = "kCommissioningComplete" ->
             EventResult(<<"Commissioning complete">>)
      [] type = "kFailSafeTimerExpired" ->
             EventResult(<<"Commissioning failed, fail safe timer expired">>)
      [] type = "kCommissioningSessionStarted" ->
             EventResult(<<"Commissioning session started">>)
      [] type = "kCommissioningSessionStopped" ->
             EventResult(<<"Commissioning session stopped">>)
      [] type = "kCommissioningWindowOpened" ->
             EventResult(<<"Commissioning window opened">>)
      [] type = "kCommissioningWindowClosed" ->
             EventResult(<<"Commissioning window closed">>)
      [] OTHER -> EventResult(<<>>)

----------------------------------------------------------------------------
Init ==
    /\ pc = 1
    /\ aborted = FALSE
    /\ light_handle = NULL
    /\ node = NULL
    /\ endpoint = NULL
    /\ aggregator = NULL
    /\ cluster = NULL
    /\ light_endpoint_id = 0
    /\ aggregator_endpoint_id = 0
    /\ err = ESP_OK
    /\ provisioned = FALSE
    /\ calls = <<>>
    /\ reports = {}
    /\ ps = "default"
    /\ wifi_cfg = [err |-> ESP_OK, ssid_len |-> 0]
    /\ tree = {}
    /\ features = {}
    /\ bridged = {}
    /\ started = FALSE
    /\ attr_val = [p \in AttrPaths |-> 0]
    /\ write_path = "OnOff"
    /\ write_before = 0
    /\ cb_trace = <<>>
    /\ last_event = [type |-> "none", logs |-> <<>>, posted |-> <<>>, error |-> FALSE]

\* nvs_flash_init, app_driver_light_init, app_driver_button_init,
\* app_reset_button_register
DriverInit ==
    /\ At("driver_init")
    /\ light_handle' = {"light"}
    /\ calls' = Append(calls, Call("driver_init", FALSE, TRUE))
    /\ pc' = pc + 1
    /\ UNCHANGED <<aborted, node, endpoint, aggregator, cluster,
                   light_endpoint_id, aggregator_endpoint_id, err, provisioned,
                   reports, ps, wifi_cfg, tree, features, bridged, started, attr_val>>
    /\ UNCHANGED <<attr_vars, event_vars>>

\* node::create and the report of its failure
NodeCreate(ok) ==
    /\ At("node_create")
    /\ node' = node_create(ok).handle
    /\ tree' = node_create(ok).tree
    /\ reports' = IF node' = NULL THEN reports \cup {"node"} ELSE reports
    /\ calls' = Append(calls, Call("node_create", FALSE, node' # NULL))
    /\ pc' = pc + 1
    /\ UNCHANGED <<aborted, light_handle, endpoint, aggregator, cluster,
                   light_endpoint_id, aggregator_endpoint_id, err, provisioned,
                   ps, wifi_cfg, features, bridged, started, attr_val>>
    /\ UNCHANGED <<attr_vars, event_vars>>

\* color_temperature_light::create and the report of its failure
LightCreate(ok) ==
    /\ At("light_create")
    /\ endpoint' = endpoint_create(node, tree, ok).handle
    /\ tree' = endpoint_create(node, tree, ok).tree
    /\ attr_val' = IF endpoint' = NULL THEN attr_val ELSE light_config
    /\ reports' = IF endpoint' = NULL THEN reports \cup {"light"} ELSE reports
    /\ calls' = Append(calls, Call("light_create", node = NULL, endpoint' # NULL))
    /\ pc' = pc + 1
    /\ UNCHANGED <<aborted, light_handle, node, aggregator, cluster,
                   light_endpoint_id, aggregator_endpoint_id, err, provisioned,
                   ps, wifi_cfg, features, bridged, started>>
    /\ UNCHANGED <<attr_vars, event_vars>>

\* endpoint::aggregator::create and the report of its failure
AggregatorCreate(ok) ==
    /\ At("aggregator_create")
    /\ aggregator' = endpoint_create(node, tree, ok).handle
    /\ tree' = endpoint_create(node, tree, ok).tree
    /\ reports' = IF aggregator' = NULL THEN reports \cup {"aggregator"} ELSE reports
    /\ calls' = Append(calls, Call("aggregator_create", node = NULL, aggregator' # NULL))
    /\ pc' = pc + 1
    /\ UNCHANGED <<aborted, light_handle, node, endpoint, cluster,
                   light_endpoint_id, aggregator_endpoint_id, err, provisioned,
                   ps, wifi_cfg, features, bridged, started, attr_val>>
    /\ UNCHANGED <<attr_vars, event_vars>>

\* light_endpoint_id = endpoint::get_id(endpoint)
GetLightId(null_id) ==
    /\ At("get_light_id")
    /\ light_endpoint_id' = get_id(endpoint, null_id)
    /\ calls' = Append(calls, Call("get_id", endpoint = NULL, endpoint # NULL))
    /\ pc' = pc + 1
    /\ UNCHANGED <<aborted, light_handle, node, endpoint, aggregator, cluster,
                   aggregator_endpoint_id, err, provisioned, reports, ps,
                   wifi_cfg, tree, features, bridged, started, attr_val>>
    /\ UNCHANGED <<attr_vars, event_vars>>

\* aggregator_endpoint_id = endpoint::get_id(aggregator)
GetAggregatorId(null_id) ==
    /\ At("get_aggregator_id")
    /\ aggregator_endpoint_id' = get_id(aggregator, null_id)
    /\ calls' = Append(calls, Call("get_id", aggregator = NULL, aggregator # NULL))
    /\ pc' = pc + 1
    /\ UNCHANGED <<aborted, light_handle, node, endpoint, aggregator, cluster,
                   light_endpoint_id, err, provisioned, reports, ps, wifi_cfg,
                   tree, features, bridged, started, attr_val>>
    /\ UNCHANGED <<attr_vars, event_vars>>

\* cluster = cluster::get(endpoint, ColorControl::Id)
ClusterGet ==
    /\ At("cluster_get")
    /\ cluster' = cluster_get(endpoint)
    /\ calls' = Append(calls, Call("cluster_get", endpoint = NULL, cluster' # NULL))
    /\ pc' = pc + 1
    /\ UNCHANGED <<aborted, light_handle, node, endpoint, aggregator,
                   light_endpoint_id, aggregator_endpoint_id, err, provisioned,
                   reports, ps, wifi_cfg, tree, features, bridged, started,
                   attr_val>>
    /\ UNCHANGED <<attr_vars, event_vars>>

\* hue_saturation::add(cluster, &hue_saturation_config)
FeatureAdd ==
    /\ At("feature_add")
    /\ features' = feature_add(cluster, features)
    /\ calls' = Append(calls, Call("feature_add", cluster = NULL, cluster # NULL))
    /\ pc' = pc + 1
    /\ UNCHANGED <<aborted, light_handle, node, endpoint, aggregator, cluster,
                   light_endpoint_id, aggregator_endpoint_id, err, provisioned,
                   reports, ps, wifi_cfg, tree, bridged, started, attr_val>>
    /\ UNCHANGED <<attr_vars, event_vars>>

\* err = esp_matter::start(app_event_cb) and the report of its failure
Start(res) ==
    /\ At("start")
    /\ err' = res
    /\ started' = (res = ESP_OK)
    /\ reports' = IF res # ESP_OK THEN reports \cup {"start"} ELSE reports
    /\ calls' = Append(calls, Call("start", FALSE, res = ESP_OK))
    /\ pc' = pc + 1
    /\ UNCHANGED <<aborted, light_handle, node, endpoint, aggregator, cluster,
                   light_endpoint_id, aggregator_endpoint_id, provisioned, ps,
                   wifi_cfg, tree, features, bridged, attr_val>>
    /\ UNCHANGED <<attr_vars, event_vars>>

\* err = app_bridge_initialize(node) and the report of its failure
BridgeInit(res, k) ==
    /\ At("bridge_init")
    /\ LET r == bridge_initialize(node, tree, res, k)
       IN /\ err' = r.err
          /\ tree' = r.tree
          /\ bridged' = r.bridged
          /\ reports' = IF r.err # ESP_OK THEN reports \cup {"bridge"} ELSE reports
          /\ calls' = Append(calls, Call("bridge_init", node = NULL, r.err = ESP_OK))
    /\ pc' = pc + 1
    /\ UNCHANGED <<aborted, light_handle, node, endpoint, aggregator, cluster,
                   light_endpoint_id, aggregator_endpoint_id, provisioned, ps,
                   wifi_cfg, features, started, attr_val>>
    /\ UNCHANGED <<attr_vars, event_vars>>

\* ESP_ERROR_CHECK(wifi_is_provisioned(&provisioned))
WifiIsProvisioned(cfg_err, ssid_len) ==
    /\ At("wifi_is_provisioned")
    /\ wifi_cfg' = [err |-> cfg_err, ssid_len |-> ssid_len]
    /\ LET r == wifi_is_provisioned({"provisioned"}, cfg_err, ssid_len)
       IN /\ provisioned' = r.provisioned
          /\ aborted' = (r.err # ESP_OK)
          /\ calls' = Append(calls, Call("wifi_is_provisioned", FALSE, r.err = ESP_OK))
    /\ pc' = pc + 1
    /\ UNCHANGED <<light_handle, node, endpoint, aggregator, cluster,
                   light_endpoint_id, aggregator_endpoint_id, err, reports, ps,
                   tree, features, bridged, started, attr_val>>
    /\ UNCHANGED <<attr_vars, event_vars>>

\* if (provisioned) esp_wifi_set_ps(WIFI_PS_NONE)
SetPs ==
    /\ At("set_ps")
    /\ ps' = IF provisioned THEN "WIFI_PS_NONE" ELSE ps
    /\ calls' = IF provisioned
                THEN Append(calls, Call("esp_wifi_set_ps", FALSE, TRUE))
                ELSE calls
    /\ pc' = pc + 1
    /\ UNCHANGED <<aborted, light_handle, node, endpoint, aggregator, cluster,
                   light_endpoint_id, aggregator_endpoint_id, err, provisioned,
                   reports, wifi_cfg, tree, features, bridged, started, attr_val>>
    /\ UNCHANGED <<attr_vars, event_vars>>

\* app_espnow_init()
EspnowInit ==
    /\ At("espnow_init")
    /\ calls' = Append(calls, Call("espnow_init", FALSE, TRUE))
    /\ pc' = pc + 1
    /\ UNCHANGED <<aborted, light_handle, node, endpoint, aggregator, cluster,
                   light_endpoint_id, aggregator_endpoint_id, err, provisioned,
                   reports, ps, wifi_cfg, tree, features, bridged, started,
                   attr_val>>
    /\ UNCHANGED <<attr_vars, event_vars>>

\* app_driver_light_set_defaults(light_endpoint_id)
SetDefaults ==
    /\ At("set_defaults")
    /\ calls' = Append(calls, Call("set_defaults", FALSE, TRUE))
    /\ pc' = pc + 1
    /\ UNCHANGED <<aborted, light_handle, node, endpoint, aggregator, cluster,
                   light_endpoint_id, aggregator_endpoint_id, err, provisioned,
                   reports, ps, wifi_cfg, tree, features, bridged, started,
                   attr_val>>
    /\ UNCHANGED <<attr_vars, event_vars>>

MainNext ==
    \/ DriverInit
    \/ \E ok \in BOOLEAN : NodeCreate(ok)
    \/ \E ok \in BOOLEAN : LightCreate(ok)
    \/ \E ok \in BOOLEAN : AggregatorCreate(ok)
    \/ \E null_id \in NullEndpointIds : GetLightId(null_id)
    \/ \E null_id \in NullEndpointIds : GetAggregatorId(null_id)
    \/ ClusterGet
    \/ FeatureAdd
    \/ \E res \in StackErrors : Start(res)
    \/ \E res \in StackErrors, k \in 0..MaxBridged : BridgeInit(res, k)
    \/ \E cfg_err \in StackErrors, ssid_len \in 0..MaxSsidLen :
           WifiIsProvisioned(cfg_err, ssid_len)
    \/ SetPs
    \/ EspnowInit
    \/ SetDefaults

----------------------------------------------------------------------------
\* The dispatch context of the started stack.
Dispatching == started /\ ~aborted

CbRecord(type, ep, p, val, priv_data, drv) ==
    LET r == app_attribute_update_cb(type, ep, ClusterOf(p), p, val, priv_data, drv)
    IN [type |-> type, endpoint_id |-> ep, cluster_id |-> ClusterOf(p),
        attribute_id |-> p, val |-> val, priv_data |-> priv_data, drv |-> drv,
        err |-> r.err, driver_calls |-> r.driver_calls]

\* A write of val to attribute p of the light endpoint: the PRE_UPDATE
\* callback, the commit unless the callback failed, the POST_UPDATE callback.
AttributeUpdate(p, val, drv) ==
    /\ Dispatching
    /\ endpoint # NULL
    /\ LET ep == get_id(endpoint, 0)
           pre == CbRecord(PRE_UPDATE, ep, p, val, light_handle, drv)
           post == CbRecord(POST_UPDATE, ep, p, val, light_handle, drv)
       IN IF pre.err = ESP_OK
          THEN /\ attr_val' = [attr_val EXCEPT ![p] = val]
               /\ cb_trace' = <<pre, post>>
          ELSE /\ attr_val' = attr_val
               /\ cb_trace' = <<pre>>
    /\ write_path' = p
    /\ write_before' = attr_val[p]
    /\ UNCHANGED <<main_vars, event_vars>>

\* A callback of another phase for attribute p of the light endpoint.
AttributeAccess(type, p, val, drv) ==
    /\ Dispatching
    /\ endpoint # NULL
    /\ cb_trace' = <<CbRecord(type, get_id(endpoint, 0), p, val, light_handle, drv)>>
    /\ write_path' = p
    /\ write_before' = attr_val[p]
    /\ UNCHANGED <<main_vars, attr_val, event_vars>>

\* The stack delivers one lifecycle event to app_event_cb.
DeliverEvent(type) ==
    /\ Dispatching
    /\ LET r == app_event_cb(type)
       IN last_event' = [type |-> type, logs |-> r.logs,
                         posted |-> r.posted, error |-> r.error]
    /\ UNCHANGED <<main_vars, attr_val, attr_vars>>

DispatchNext ==
    \/ \E p \in AttrPaths, drv \in StackErrors :
           \E val \in AttrValues(p) : AttributeUpdate(p, val, drv)
    \/ \E type \in callback_type_t \ {PRE_UPDATE, POST_UPDATE}, p \in AttrPaths,
          drv \in StackErrors :
           \E val \in AttrValues(p) : AttributeAccess(type, p, val, drv)
    \/ \E type \in DeviceEventType : DeliverEvent(type)

Next == MainNext \/ DispatchNext

Spec == Init /\ [][Next]_vars

----------------------------------------------------------------------------
\* Properties.

\* C1: every PRE_UPDATE invocation of app_attribute_update_cb calls the driver
\* exactly once, with the handle taken from priv_data and the endpoint id,
\* cluster id, attribute id and value it received, and returns what the
\* driver returned.
C1_PreUpdateForwardsToDriver ==
    \A i \in 1..Len(cb_trace) :
        LET r == cb_trace[i]
        IN r.type = PRE_UPDATE =>
               /\ Len(r.driver_calls) = 1
               /\ r.driver_calls[1].handle = r.priv_data
               /\ r.driver_calls[1].endpoint_id = r.endpoint_id
               /\ r.driver_calls[1].cluster_id = r.cluster_id
               /\ r.driver_calls[1].attribute_id = r.attribute_id
               /\ r.driver_calls[1].val = r.val
               /\ r.err = r.drv

\* A PRE_UPDATE callback whose driver call failed has returned that failure.
C1_Witness ==
    /\ cb_trace # <<>>
    /\ cb_trace[1].type = PRE_UPDATE
    /\ cb_trace[1].priv_data = {"light"}
    /\ cb_trace[1].drv = ESP_FAIL
    /\ cb_trace[1].err = ESP_FAIL
    /\ Len(cb_trace[1].driver_calls) = 1

C3_OtherPhaseIsNoop ==
    \A i \in 1..Len(cb_trace) :
        cb_trace[i].type # PRE_UPDATE =>
            /\ cb_trace[i].err = ESP_OK
            /\ cb_trace[i].driver_calls = <<>>

\* A callback of another phase while the driver would have failed.
C3_Witness ==
    \E i \in 1..Len(cb_trace) :
        /\ cb_trace[i].type # PRE_UPDATE
        /\ cb_trace[i].drv = ESP_FAIL
        /\ cb_trace[i].err = ESP_OK

\* C4: when node creation fails, the failure is reported, startup does not
\* crash and no get_id, cluster lookup or feature add is made on a null
\* handle.
C4_NullNodeFailsCleanly ==
    (Called("node_create") /\ node = NULL) =>
        /\ "node" \in reports
        /\ ~aborted
        /\ \A i \in 1..Len(calls) :
               calls[i].fn \in {"get_id", "cluster_get", "feature_add"} =>
                   ~calls[i].null_arg

\* C5: app_main creates the node first, then attaches the light endpoint, the
\* aggregator endpoint and the hue/saturation feature, then starts the stack,
\* then restores the bridge; it makes no creation or feature-add call after
\* the start of the stack.
CompositionCalls ==
    {"node_create", "light_create", "aggregator_create", "feature_add"}

C5_StartupOrder ==
    /\ \A i, j \in 1..Len(calls) :
           (calls[i].fn = "start" /\ calls[j].fn \in CompositionCalls) => j < i
    /\ \A fn \in CompositionCalls \ {"node_create"} :
           Called(fn) => (0 < Pos("node_create") /\ Pos("node_create") < Pos(fn))
    /\ Called("start") => \A fn \in CompositionCalls : Called(fn)
    /\ Called("bridge_init") =>
           (0 < Pos("start") /\ Pos("start") < Pos("bridge_init"))
    /\ Terminated => Called("bridge_init")

\* app_main has returned after all of these calls.
C5_Witness ==
    /\ Returned
    /\ \A fn \in CompositionCalls \cup {"start", "bridge_init"} : Called(fn)
    /\ features = {"hue_saturation"}

\* C6: the stack is started exactly once per run; when the start fails, the
\* failure is reported, the start is not retried, and startup goes on to the
\* bridge restore, the provisioning query, the bridging transport init and
\* the light driver defaults.
C6_StartFailureContinues ==
    /\ CallCount("start") <= 1
    /\ Terminated => CallCount("start") = 1
    /\ Failed("start") => "start" \in reports
    /\ (Terminated /\ Failed("start")) =>
           \A fn \in {"bridge_init", "wifi_is_provisioned", "espnow_init",
                      "set_defaults"} : Called(fn)

\* C7: the bridge restore is invoked exactly once, after the stack start; when
\* it fails, the failure is reported, the bridge is empty, and startup goes on
\* to the bridging transport init and the light driver defaults without
\* aborting.
C7_RestoreFailureContinues ==
    /\ CallCount("bridge_init") <= 1
    /\ Called("bridge_init") =>
           (0 < Pos("start") /\ Pos("start") < Pos("bridge_init"))
    /\ Failed("bridge_init") => ("bridge" \in reports /\ bridged = {})
    /\ (Terminated /\ Failed("bridge_init")) =>
           /\ ~aborted
           /\ Called("espnow_init")
           /\ Called("set_defaults")

\* C8: every delivered event is handled once by app_event_cb: an event of a
\* kind the switch names logs its one line, an event of any other kind logs
\* nothing, and no delivery raises an error or posts another event.
C8_EventHandledOnce ==
    last_event.type # "none" =>
        /\ ~last_event.error
        /\ last_event.posted = <<>>
        /\ last_event.type \in RecognisedEvents => Len(last_event.logs) = 1
        /\ last_event.type \notin RecognisedEvents => last_event.logs = <<>>

\* An event of a kind the switch does not name has been delivered.
C8_Witness ==
    /\ last_event.type \in OtherEvents
    /\ last_event.logs = <<>>
    /\ ~last_event.error

\* C9: once app_main has recorded both endpoint ids, the light endpoint id
\* and the aggregator endpoint id differ.
C9_EndpointIdsUnique ==
    CallCount("get_id") = 2 => light_endpoint_id # aggregator_endpoint_id

\* C10: at the end of startup power saving is disabled exactly when the
\* query succeeded on a non-empty station SSID, and whatever the outcome of
\* the query the bridging transport has been initialised and the light
\* driver defaults applied.
C10_QueryOnlyTogglesPowerSave ==
    Terminated =>
        /\ (ps = "WIFI_PS_NONE") <=>
               (wifi_cfg.err = ESP_OK /\ wifi_cfg.ssid_len > 0)
        /\ Called("espnow_init")
        /\ Called("set_defaults")
====
